---- MODULE Spec2Model ----
(***************************************************************************)
(* A model of the popper shell (src/main.rs): the read loop of main, the   *)
(* tokenizer, the redirection extractor, the PATH resolver, the builtins   *)
(* and the two-sided pipeline executor with its child processes and pipes. *)
(*                                                                         *)
(* A Rust String is a sequence of one-character strings; an Option is the  *)
(* empty sequence (None) or a one-element sequence (Some).                 *)
(***************************************************************************)
EXTENDS Integers, Sequences, FiniteSets, TLC

(***************************************************************************)
(* Bounds of the model.                                                    *)
(***************************************************************************)
\* the longest input line, in words of the input alphabet
MaxWords == 5
\* the capacity of an OS pipe, in bytes
PipeCap == 2
\* the most bytes an external producer writes to its stdout
MaxProd == 3

(***************************************************************************)
(* String helpers (str::starts_with, slicing, trim, split_whitespace,      *)
(* join, i32 parsing).                                                     *)
(***************************************************************************)
None == <<>>
Some(x) == <<x>>

starts_with(s, p) == Len(s) >= Len(p) /\ SubSeq(s, 1, Len(p)) = p

\* &s[n..] : the string from byte offset n (0-based) on
slice_from(s, n) == SubSeq(s, n + 1, Len(s))

is_whitespace(c) == c \in {" ", "\t", "\n", "\r"}

RECURSIVE trim_start(_)
trim_start(s) ==
    IF s # <<>> /\ is_whitespace(Head(s)) THEN trim_start(Tail(s)) ELSE s

RECURSIVE trim_end(_)
trim_end(s) ==
    IF s # <<>> /\ is_whitespace(s[Len(s)])
    THEN trim_end(SubSeq(s, 1, Len(s) - 1))
    ELSE s

trim(s) == trim_end(trim_start(s))

\* str::split_whitespace: the maximal whitespace-free pieces, none empty
RECURSIVE split_ws(_, _, _)
split_ws(s, cur, acc) ==
    IF s = <<>> THEN (IF cur = <<>> THEN acc ELSE Append(acc, cur))
    ELSE IF is_whitespace(Head(s))
         THEN split_ws(Tail(s), <<>>, IF cur = <<>> THEN acc ELSE Append(acc, cur))
         ELSE split_ws(Tail(s), Append(cur, Head(s)), acc)

split_whitespace(s) == split_ws(s, <<>>, <<>>)

\* str::split(sep): every piece between separators, empty ones included
RECURSIVE split_on(_, _, _, _)
split_on(s, sep, cur, acc) ==
    IF s = <<>> THEN Append(acc, cur)
    ELSE IF Head(s) = sep
         THEN split_on(Tail(s), sep, <<>>, Append(acc, cur))
         ELSE split_on(Tail(s), sep, Append(cur, Head(s)), acc)

split(s, sep) == split_on(s, sep, <<>>, <<>>)

\* [String]::join(sep)
RECURSIVE join(_, _)
join(ss, sep) ==
    IF ss = <<>> THEN <<>>
    ELSE IF Len(ss) = 1 THEN ss[1]
    ELSE ss[1] \o sep \o join(Tail(ss), sep)

DigitVal == [c \in {"0", "1", "2", "3", "4", "5", "6", "7", "8", "9"} |->
               CASE c = "0" -> 0 [] c = "1" -> 1 [] c = "2" -> 2 [] c = "3" -> 3
                 [] c = "4" -> 4 [] c = "5" -> 5 [] c = "6" -> 6 [] c = "7" -> 7
                 [] c = "8" -> 8 [] c = "9" -> 9]

I32Max == 2147483647

\* the checked accumulation of i32::from_str over the digits that are left:
\* positive numbers upwards, negative numbers downwards; None on overflow
RECURSIVE digits_value(_, _, _)
digits_value(s, acc, neg) ==
    IF s = <<>> THEN Some(acc)
    ELSE LET d == DigitVal[Head(s)] IN
         IF neg
         THEN (IF acc >= ((0 - I32Max) - 1 + d) \div 10 + (IF ((0 - I32Max) - 1 + d) % 10 = 0 THEN 0 ELSE 1)
               THEN digits_value(Tail(s), acc * 10 - d, neg) ELSE None)
         ELSE (IF acc <= (I32Max - d) \div 10
               THEN digits_value(Tail(s), acc * 10 + d, neg) ELSE None)

\* str::parse::<i32>().unwrap_or(0): an optional sign, then one or more
\* decimal digits, within the range of i32; anything else is the default 0
parse_i32_or_0(s) ==
    LET neg  == s # <<>> /\ Head(s) = "-"
        body == IF s # <<>> /\ Head(s) \in {"+", "-"} THEN Tail(s) ELSE s
        ok   == body # <<>> /\ \A i \in 1..Len(body) : body[i] \in DOMAIN DigitVal
    IN  IF ok /\ digits_value(body, 0, neg) # None
        THEN digits_value(body, 0, neg)[1] ELSE 0

\* the grave accent character, which a TLA+ string literal cannot hold
Backtick == "grave"

(***************************************************************************)
(* parse_arguments: the tokenizer.                                         *)
(***************************************************************************)
\* the characters a backslash escapes inside double quotes, had it escaped
\* the letter a as well
DoubleQuoteEscapes_AndLetters == {"\\", "\"", "$", Backtick, "a"}

\* next_ch == '\\' || next_ch == '"' || next_ch == '$' || next_ch == '`'
DoubleQuoteEscapes == {"\\", "\"", "$", Backtick}

\* the guard of the backslash arm, had it held inside single quotes too
is_escape_InSingleQuotes(ch, sq) == ch = "\\"

\* '\\' if !in_single_quote
is_escape(ch, sq) == ch = "\\" /\ ~sq

\* push_arg, had it pushed an empty current_arg as well
push_arg_Always(args, cur) == Append(args, cur)

\* if !current_arg.is_empty() { args.push(current_arg) }
push_arg(args, cur) == IF cur # <<>> THEN Append(args, cur) ELSE args

\* the loop of parse_arguments from character i on: args and current_arg
\* so far, sq = in_single_quote, dq = in_double_quote
RECURSIVE parse_arguments_loop(_, _, _, _, _, _)
parse_arguments_loop(s, i, args, cur, sq, dq) ==
    IF i > Len(s)
    THEN push_arg(args, cur)
    ELSE
      LET ch == s[i] IN
      IF is_escape(ch, sq) THEN
          IF i + 1 <= Len(s) THEN
              LET next_ch == s[i + 1] IN
              IF dq THEN
                  IF next_ch \in DoubleQuoteEscapes
                  THEN parse_arguments_loop(s, i + 2, args, Append(cur, next_ch), sq, dq)
                  ELSE parse_arguments_loop(s, i + 1, args, Append(cur, ch), sq, dq)
              ELSE parse_arguments_loop(s, i + 2, args, Append(cur, next_ch), sq, dq)
          ELSE parse_arguments_loop(s, i + 1, args, cur, sq, dq)
      ELSE IF ch = "'" /\ ~dq THEN
          parse_arguments_loop(s, i + 1, args, cur, ~sq, dq)
      ELSE IF ch = "\"" /\ ~sq THEN
          parse_arguments_loop(s, i + 1, args, cur, sq, ~dq)
      ELSE IF ch \in {" ", "\t"} /\ ~sq /\ ~dq THEN
          parse_arguments_loop(s, i + 1, push_arg(args, cur), <<>>, sq, dq)
      ELSE parse_arguments_loop(s, i + 1, args, Append(cur, ch), sq, dq)

parse_arguments(input_) == parse_arguments_loop(input_, 1, <<>>, <<>>, FALSE, FALSE)

(***************************************************************************)
(* parse_redirection: the redirection extractor.                           *)
(***************************************************************************)
OpAppend  == <<">", ">">>
Op1Append == <<"1", ">", ">">>
Op2Append == <<"2", ">", ">">>
OpTrunc   == <<">">>
Op1Trunc  == <<"1", ">">>
Op2Trunc  == <<"2", ">">>

\* the result tuple of parse_redirection, before the first token is read
RedirInit ==
    [cmd_parts |-> <<>>, stdout_file |-> None, stdout_append |-> FALSE,
     stderr_file |-> None, stderr_append |-> FALSE]

\* the while loop of parse_redirection from index i (1-based) on
RECURSIVE parse_redirection_loop(_, _, _)
parse_redirection_loop(parts_, i, r) ==
    IF i > Len(parts_) THEN r
    ELSE
      LET part == parts_[i]
          more == i + 1 <= Len(parts_)
          keep == parse_redirection_loop(parts_, i + 1,
                      [r EXCEPT !.cmd_parts = Append(@, part)])
          out(f, app, n) == parse_redirection_loop(parts_, i + n,
                      [r EXCEPT !.stdout_file = Some(f), !.stdout_append = app])
          err(f, app, n) == parse_redirection_loop(parts_, i + n,
                      [r EXCEPT !.stderr_file = Some(f), !.stderr_append = app])
      IN
      IF part = OpAppend \/ part = Op1Append THEN
          IF more THEN out(parts_[i + 1], TRUE, 2) ELSE keep
      ELSE IF part = Op2Append THEN
          IF more THEN err(parts_[i + 1], TRUE, 2) ELSE keep
      ELSE IF part = OpTrunc \/ part = Op1Trunc THEN
          IF more THEN out(parts_[i + 1], FALSE, 2) ELSE keep
      ELSE IF part = Op2Trunc THEN
          IF more THEN err(parts_[i + 1], FALSE, 2) ELSE keep
      ELSE IF starts_with(part, OpAppend) /\ ~starts_with(part, Op2Append) THEN
          out(slice_from(part, 2), TRUE, 1)
      ELSE IF starts_with(part, Op1Append) THEN
          out(slice_from(part, 3), TRUE, 1)
      ELSE IF starts_with(part, Op2Append) THEN
          err(slice_from(part, 3), TRUE, 1)
      ELSE IF starts_with(part, OpTrunc) /\ ~starts_with(part, Op2Trunc) THEN
          out(slice_from(part, 1), FALSE, 1)
      ELSE IF starts_with(part, Op1Trunc) THEN
          out(slice_from(part, 2), FALSE, 1)
      ELSE IF starts_with(part, Op2Trunc) THEN
          err(slice_from(part, 2), FALSE, 1)
      ELSE keep

\* parse_redirection, had it reported every target as opened to truncate
parse_redirection_NeverAppends(parts_) ==
    [parse_redirection_loop(parts_, 1, RedirInit)
        EXCEPT !.stdout_append = FALSE, !.stderr_append = FALSE]

\* parse_redirection, had an append to stdout set the mode of stderr too
parse_redirection_SharesMode(parts_) ==
    LET r == parse_redirection_loop(parts_, 1, RedirInit) IN
    [r EXCEPT !.stderr_append = @ \/ r.stdout_append]

parse_redirection(parts_) == parse_redirection_loop(parts_, 1, RedirInit)

(***************************************************************************)
(* The state of the shell process, of its environment and of the children  *)
(* of the pipeline being run.                                              *)
(***************************************************************************)
VARIABLES
    pc,           \* where the shell is in main / execute_pipeline
    exit_code,    \* None while the shell process runs, Some(status) once it ended
    input,        \* main: the trimmed line
    parts,        \* main: the tokens of the line
    out,          \* the bytes the terminal's stdout received for this line
    err,          \* the bytes the terminal's stderr received for this line
    files,        \* the files of the working directory: name -> content
    fs,           \* the installed files: absolute path -> permission mode
    env_PATH,     \* the PATH environment variable, an Option
    cwd,          \* the working directory
    left_child,   \* execute_pipeline: the left stage's process
    right_child,  \* execute_pipeline: the right stage's process
    pipe,         \* the OS pipe between the shell and its child
    left_output,  \* execute_pipeline: the left builtin's bytes not yet written
    rx,           \* the bytes the reading end of the pipe has read
    log,          \* what the shell has done for this line, in order
    script,       \* the lines the line editor has yet to hand to main
    ret           \* what a function called on its own returned, an Option

vars == <<pc, exit_code, input, parts, out, err, files, fs, env_PATH, cwd,
          left_child, right_child, pipe, left_output, rx, log, script, ret>>

(***************************************************************************)
(* The words of the input alphabet and the texts the shell prints.         *)
(***************************************************************************)
Echo == <<"e", "c", "h", "o">>
Exit == <<"e", "x", "i", "t">>
Type == <<"t", "y", "p", "e">>
Pwd == <<"p", "w", "d">>
Cd == <<"c", "d">>
Cat == <<"c", "a", "t">>
PipeTok == <<"|">>
RedirF == <<">", "f">>
Seven == <<"7">>
WordA == <<"a">>
WordB == <<"b">>
FileF == <<"f">>

CommandNotFound ==
    <<":", " ", "c", "o", "m", "m", "a", "n", "d", " ", "n", "o", "t", " ",
      "f", "o", "u", "n", "d", "\n">>
FailedToCreateFile ==
    <<"F", "a", "i", "l", "e", "d", " ", "t", "o", " ", "c", "r", "e", "a",
      "t", "e", " ", "f", "i", "l", "e", ":", " ">>
FailedToExecute ==
    <<"F", "a", "i", "l", "e", "d", " ", "t", "o", " ", "e", "x", "e", "c",
      "u", "t", "e", " ">>
FailedToWaitFor ==
    <<"F", "a", "i", "l", "e", "d", " ", "t", "o", " ", "w", "a", "i", "t",
      " ", "f", "o", "r", " ">>
IsAShellBuiltin ==
    <<" ", "i", "s", " ", "a", " ", "s", "h", "e", "l", "l", " ", "b", "u",
      "i", "l", "t", "i", "n", "\n">>
IsPath ==
    <<" ", "i", "s", " ">>
NotFound ==
    <<":", " ", "n", "o", "t", " ", "f", "o", "u", "n", "d", "\n">>
CdPrefix ==
    <<"c", "d", ":", " ">>
NoSuchFile ==
    <<":", " ", "N", "o", " ", "s", "u", "c", "h", " ", "f", "i", "l", "e",
      " ", "o", "r", " ", "d", "i", "r", "e", "c", "t", "o", "r", "y",
      "\n">>

(***************************************************************************)
(* find_in_path: the PATH resolver.                                        *)
(***************************************************************************)
\* Path::join: an absolute name replaces the directory, an empty directory
\* yields the name alone, and one separator stands between the two
path_join(dir, cmd) ==
    IF cmd # <<>> /\ Head(cmd) = "/" THEN cmd
    ELSE IF dir = <<>> THEN cmd
    ELSE IF dir[Len(dir)] = "/" THEN dir \o cmd
    ELSE dir \o <<"/">> \o cmd

\* has_execute_bit, had it looked at the owner's bit alone
has_execute_bit_OwnerOnly(mode) == (mode \div 64) % 2 = 1

\* permissions.mode() & 0o111 != 0: an execute bit of owner, group or other
has_execute_bit(mode) ==
    \/ (mode \div 64) % 2 = 1
    \/ (mode \div 8) % 2 = 1
    \/ mode % 2 = 1

\* the for loop of find_in_path over the directories that are left
RECURSIVE find_in_dirs(_, _)
find_in_dirs(dirs, cmd) ==
    IF dirs = <<>> THEN None
    ELSE LET full_path == path_join(Head(dirs), cmd) IN
         IF full_path \in DOMAIN fs /\ has_execute_bit(fs[full_path])
         THEN Some(full_path)
         ELSE find_in_dirs(Tail(dirs), cmd)

find_in_path(cmd) ==
    IF env_PATH = None THEN None
    ELSE find_in_dirs(split(env_PATH[1], ":"), cmd)

(***************************************************************************)
(* The builtins.                                                           *)
(***************************************************************************)
is_builtin(cmd) == cmd \in {Echo, Exit, Type, Pwd, Cd}

\* the output buffer execute_builtin returns (its reading of stdin is a
\* step of the pipeline, below)
execute_builtin(cmd, args) ==
    IF cmd = Echo THEN join(args, <<" ">>) \o <<"\n">>
    ELSE IF cmd = Type THEN
        IF args = <<>> THEN <<>>
        ELSE LET arg == args[1] IN
             IF is_builtin(arg) THEN arg \o IsAShellBuiltin
             ELSE IF find_in_path(arg) # None
                  THEN arg \o IsPath \o find_in_path(arg)[1] \o <<"\n">>
                  ELSE arg \o NotFound
    ELSE IF cmd = Pwd THEN cwd \o <<"\n">>
    ELSE <<>>

(***************************************************************************)
(* The environment the shell starts in, and its input.                     *)
(***************************************************************************)
\* a process the pipeline has not spawned
NoChild ==
    [st |-> "none", status |-> 0, killed |-> FALSE, waited |-> FALSE,
     argv |-> <<>>, kind |-> "none", todo |-> 0]

\* no pipe is open
NoPipe == [buf |-> <<>>, w_open |-> FALSE, r_open |-> FALSE, eof |-> FALSE]

NoFiles == [n \in {} |-> <<>>]

\* /a/cat is not executable (mode 0o644), /b/cat is (mode 0o755); there is
\* no file named 7, | or >f in either directory
InstalledFiles ==
    [p \in {<<"/", "a", "/", "c", "a", "t">>, <<"/", "b", "/", "c", "a", "t">>} |->
        IF p[2] = "a" THEN 6 * 64 + 4 * 8 + 4 ELSE 7 * 64 + 5 * 8 + 5]

StartPATH == Some(<<"/", "a", ":", "/", "b">>)
StartDir == <<"/", "w">>
env_HOME == Some(<<"/", "h">>)
Directories == {<<"/">>, <<"/", "a">>, <<"/", "b">>, <<"/", "w">>, <<"/", "h">>}

\* the input alphabet, and the lines the line editor may hand to main
Words == {Echo, Exit, Cat, PipeTok, RedirF, Seven}
Lines == {join(ws, <<" ">>) : ws \in UNION {[1..n -> Words] : n \in 0..MaxWords}}

\* what an external program run to completion may have written to its
\* stdout and stderr
ChildOutputs ==
    {[o |-> <<>>, e |-> <<>>], [o |-> <<"x", "\n">>, e |-> <<>>],
     [o |-> <<>>, e |-> <<"!", "\n">>]}

\* the exit codes of an external program; -1 stands for a death by signal,
\* where ExitStatus::code() is None
ExitCodes == {0, 1}
BySignal == 0 - 1

Ev(e, who, argv) == [e |-> e, who |-> who, argv |-> argv]

\* a shell that has just started, in an empty working directory
Boot ==
    /\ exit_code = None
    /\ out = <<>>
    /\ err = <<>>
    /\ files = NoFiles
    /\ cwd = StartDir
    /\ left_child = NoChild
    /\ right_child = NoChild
    /\ pipe = NoPipe
    /\ left_output = <<>>
    /\ rx = <<>>
    /\ log = <<>>
    /\ ret = None

\* the shell is started and is handed one line of the input alphabet
Init ==
    /\ Boot
    /\ pc = "read"
    /\ input = <<>>
    /\ parts = <<>>
    /\ fs = InstalledFiles
    /\ env_PATH = StartPATH
    /\ script \in {<<line>> : line \in Lines}

(***************************************************************************)
(* Files: File::create, OpenOptions::append, write.                        *)
(***************************************************************************)
\* open_file, had an append-mode open truncated the file as well
open_file_Truncates(fls, name, append) ==
    [n \in DOMAIN fls \cup {name} |-> IF n = name THEN <<>> ELSE fls[n]]

\* the files after opening name for writing: created if absent; truncated
\* by File::create, left alone by an append-mode open
open_file(fls, name, append) ==
    [n \in DOMAIN fls \cup {name} |->
        IF n = name
        THEN (IF append /\ name \in DOMAIN fls THEN fls[name] ELSE <<>>)
        ELSE fls[n]]

\* the files after writing bytes at the end of the open file name
write_file(fls, name, bytes) == [fls EXCEPT ![name] = @ \o bytes]

(***************************************************************************)
(* main: one iteration of the read loop.                                   *)
(***************************************************************************)
env_unchanged == UNCHANGED <<fs, env_PATH>>
pipeline_unchanged == UNCHANGED <<left_child, right_child, pipe, left_output, rx>>

\* rl.readline returned Ok(line): trim it and tokenize it
ReadLine ==
    /\ pc = "read"
    /\ script # <<>>
    /\ LET line == Head(script) IN
        /\ input' = trim(line)
        /\ parts' = parse_arguments(trim(line))
    /\ script' = Tail(script)
    /\ pc' = "main"
    /\ UNCHANGED <<exit_code, out, err, files, cwd, log, ret>>
    /\ pipeline_unchanged
    /\ env_unchanged

\* continue, or the end of the loop body: back to rl.readline.  The locals
\* of the iteration go out of scope and the record of what the terminal
\* received is kept per line; the files of the working directory stay.
Continue ==
    /\ pc = "done"
    /\ pc' = "read"
    /\ input' = <<>>
    /\ parts' = <<>>
    /\ out' = <<>>
    /\ err' = <<>>
    /\ left_child' = NoChild
    /\ right_child' = NoChild
    /\ pipe' = NoPipe
    /\ left_output' = <<>>
    /\ rx' = <<>>
    /\ log' = <<>>
    /\ UNCHANGED <<exit_code, files, cwd>>
    /\ env_unchanged
    /\ UNCHANGED <<script, ret>>

\* rl.readline returned Eof, or Interrupted at any line: break, and main
\* returns
EndOfInput ==
    /\ pc = "read"
    /\ pc' = "exited"
    /\ exit_code' = Some(0)
    /\ UNCHANGED <<input, parts, out, err, files, cwd, log>>
    /\ pipeline_unchanged
    /\ env_unchanged
    /\ UNCHANGED <<script, ret>>

\* parts.is_empty(): continue
EmptyLine ==
    /\ pc = "main"
    /\ parts = <<>>
    /\ pc' = "done"
    /\ UNCHANGED <<exit_code, input, parts, out, err, files, cwd, log>>
    /\ pipeline_unchanged
    /\ env_unchanged
    /\ UNCHANGED <<script, ret>>

has_pipe == \E i \in 1..Len(parts) : parts[i] = PipeTok

\* parts.iter().position(|p| p == "|"), 1-based
pipe_pos == CHOOSE i \in 1..Len(parts) :
                parts[i] = PipeTok /\ \A j \in 1..(i - 1) : parts[j] # PipeTok

is_plain == pc = "main" /\ parts # <<>> /\ ~has_pipe

\* input.starts_with("exit"): std::process::exit with the second
\* whitespace-separated word parsed as an i32, or 0
MainExit ==
    /\ is_plain
    /\ starts_with(input, Exit)
    /\ LET exit_parts == split_whitespace(input)
           code == IF Len(exit_parts) > 1 THEN parse_i32_or_0(exit_parts[2]) ELSE 0
       IN /\ exit_code' = Some(code)
          /\ log' = Append(log, Ev("exit", "plain", parts))
    /\ pc' = "exited"
    /\ UNCHANGED <<input, parts, out, err, files, cwd>>
    /\ pipeline_unchanged
    /\ env_unchanged
    /\ UNCHANGED <<script, ret>>

is_echo == starts_with(input, Echo \o <<" ">>)
is_pwd  == input = Pwd
is_cd   == starts_with(input, Cd \o <<" ">>)
is_type == starts_with(input, Type \o <<" ">>)

\* the echo branch of main: the new <<out, err, files>>
main_echo(open_out_ok, open_err_ok) ==
    LET r    == parse_redirection(SubSeq(parts, 2, Len(parts)))
        text == join(r.cmd_parts, <<" ">>) \o <<"\n">>
        to_file == r.stdout_file # None
        files1 == IF to_file /\ open_out_ok
                  THEN write_file(open_file(files, r.stdout_file[1], r.stdout_append),
                                  r.stdout_file[1], text)
                  ELSE files
        files2 == IF r.stderr_file # None /\ open_err_ok
                  THEN open_file(files1, r.stderr_file[1], FALSE)
                  ELSE files1
    IN  << IF to_file THEN out ELSE out \o text,
           IF to_file /\ ~open_out_ok
           THEN err \o FailedToCreateFile \o r.stdout_file[1] \o <<"\n">>
           ELSE err,
           files2 >>

\* the cd branch of main: the new <<out, cwd>>
main_cd ==
    LET path == slice_from(input, 3)
        tilde == path = <<"~">> \/ starts_with(path, <<"~", "/">>)
        expanded_path ==
            IF tilde /\ env_HOME # None
            THEN (IF path = <<"~">> THEN env_HOME[1]
                  ELSE env_HOME[1] \o slice_from(path, 1))
            ELSE path
        target == path_join(cwd, expanded_path)
    IN  IF target \in Directories
        THEN <<out, target>>
        ELSE <<out \o CdPrefix \o path \o NoSuchFile, cwd>>

\* the type branch of main: the new out
main_type ==
    LET cmd == slice_from(input, 5) IN
    IF is_builtin(cmd) THEN out \o cmd \o IsAShellBuiltin
    ELSE IF find_in_path(cmd) # None
         THEN out \o cmd \o IsPath \o find_in_path(cmd)[1] \o <<"\n">>
         ELSE out \o cmd \o NotFound

\* the builtins main runs itself when the line holds no pipe: echo, pwd,
\* cd and type, tried in this order
MainBuiltin ==
    /\ is_plain
    /\ ~starts_with(input, Exit)
    /\ TRUE \in {is_echo, is_pwd, is_cd, is_type}
    /\ \E open_out_ok, open_err_ok \in BOOLEAN :
        IF is_echo THEN
            LET e == main_echo(open_out_ok, open_err_ok)
                r == parse_redirection(SubSeq(parts, 2, Len(parts)))
            IN /\ out' = e[1] /\ err' = e[2] /\ files' = e[3]
               /\ log' = Append(log, Ev("builtin", "plain", <<Echo>> \o r.cmd_parts))
                          \o (IF r.stdout_file # None /\ ~open_out_ok
                              THEN <<Ev("open_failed", "plain", r.stdout_file)>>
                              ELSE <<>>)
                          \o (IF r.stderr_file # None /\ ~open_err_ok
                              THEN <<Ev("open_failed", "plain", r.stderr_file)>>
                              ELSE <<>>)
               /\ UNCHANGED cwd
        ELSE IF is_pwd THEN
            /\ out' = out \o cwd \o <<"\n">>
            /\ log' = Append(log, Ev("builtin", "plain", <<Pwd>>))
            /\ UNCHANGED <<err, files, cwd>>
        ELSE IF is_cd THEN
            /\ out' = main_cd[1] /\ cwd' = main_cd[2]
            /\ log' = Append(log, Ev("builtin", "plain", <<Cd, slice_from(input, 3)>>))
            /\ UNCHANGED <<err, files>>
        ELSE
            /\ out' = main_type
            /\ log' = Append(log, Ev("builtin", "plain", <<Type, slice_from(input, 5)>>))
            /\ UNCHANGED <<err, files, cwd>>
    /\ pc' = "done"
    /\ UNCHANGED <<exit_code, input, parts>>
    /\ pipeline_unchanged
    /\ env_unchanged
    /\ UNCHANGED <<script, ret>>

\* the line is left to the external branch of main
is_external ==
    /\ is_plain
    /\ ~starts_with(input, Exit)
    /\ ~(TRUE \in {is_echo, is_pwd, is_cd, is_type})

\* cmd_parts.is_empty(): continue
MainNoCommand ==
    /\ is_external
    /\ parse_redirection(parts).cmd_parts = <<>>
    /\ pc' = "done"
    /\ UNCHANGED <<exit_code, input, parts, out, err, files, cwd, log>>
    /\ pipeline_unchanged
    /\ env_unchanged
    /\ UNCHANGED <<script, ret>>

\* a builtin's name reached the external branch: "<input>: command not found"
MainBuiltinName ==
    /\ is_external
    /\ parse_redirection(parts).cmd_parts # <<>>
    /\ is_builtin(parse_redirection(parts).cmd_parts[1])
    /\ out' = out \o input \o CommandNotFound
    /\ pc' = "done"
    /\ UNCHANGED <<exit_code, input, parts, err, files, cwd, log>>
    /\ pipeline_unchanged
    /\ env_unchanged
    /\ UNCHANGED <<script, ret>>

\* find_in_path found nothing: "<input>: command not found"
MainNotFound ==
    /\ is_external
    /\ LET cmd_parts == parse_redirection(parts).cmd_parts IN
        /\ cmd_parts # <<>>
        /\ ~is_builtin(cmd_parts[1])
        /\ find_in_path(cmd_parts[1]) = None
        /\ log' = Append(log, Ev("lookup_failed", "plain", <<cmd_parts[1]>>))
    /\ out' = out \o input \o CommandNotFound
    /\ pc' = "done"
    /\ UNCHANGED <<exit_code, input, parts, err, files, cwd>>
    /\ pipeline_unchanged
    /\ env_unchanged
    /\ UNCHANGED <<script, ret>>

\* the command resolved: open the redirection targets, then
\* Command::output(), which spawns the child, collects what it writes to
\* the streams that are not redirected, and waits for it
MainRun ==
    /\ is_external
    /\ LET r == parse_redirection(parts) IN
        /\ r.cmd_parts # <<>>
        /\ ~is_builtin(r.cmd_parts[1])
        /\ find_in_path(r.cmd_parts[1]) # None
        /\ \E open_out_ok, open_err_ok, spawn_ok \in BOOLEAN, co \in ChildOutputs :
            LET to_out == r.stdout_file # None
                to_err == r.stderr_file # None
                files1 == IF to_out
                          THEN open_file(files, r.stdout_file[1], r.stdout_append)
                          ELSE files
                files2 == IF to_err
                          THEN open_file(files1, r.stderr_file[1], r.stderr_append)
                          ELSE files1
                files3 == IF to_out THEN write_file(files2, r.stdout_file[1], co.o)
                          ELSE files2
                files4 == IF to_err THEN write_file(files3, r.stderr_file[1], co.e)
                          ELSE files3
            IN  IF to_out /\ ~open_out_ok THEN
                    /\ err' = err \o FailedToCreateFile \o r.stdout_file[1] \o <<"\n">>
                    /\ UNCHANGED <<out, files, log>>
                ELSE IF to_err /\ ~open_err_ok THEN
                    /\ err' = err \o FailedToCreateFile \o r.stderr_file[1] \o <<"\n">>
                    /\ files' = files1
                    /\ UNCHANGED <<out, log>>
                ELSE IF ~spawn_ok THEN
                    /\ out' = out \o input \o CommandNotFound
                    /\ files' = files2
                    /\ log' = Append(log, Ev("spawn_failed", "plain", r.cmd_parts))
                    /\ UNCHANGED err
                ELSE
                    /\ out' = (IF to_out THEN out ELSE out \o co.o)
                    /\ err' = (IF to_err THEN err ELSE err \o co.e)
                    /\ files' = files4
                    /\ log' = log \o <<Ev("spawn", "plain", r.cmd_parts),
                                       Ev("wait", "plain", r.cmd_parts)>>
    /\ pc' = "done"
    /\ UNCHANGED <<exit_code, input, parts, cwd>>
    /\ pipeline_unchanged
    /\ env_unchanged
    /\ UNCHANGED <<script, ret>>

(***************************************************************************)
(* execute_pipeline: the line holds a pipe; it is split at the first one.  *)
(* A child is "running", then a "zombie" (ended, not waited for), then     *)
(* "reaped".  killed: Child::kill was called on it; waited: a wait was.    *)
(***************************************************************************)
in_pipeline == pc = "main" /\ parts # <<>> /\ has_pipe

left_parts  == SubSeq(parts, 1, pipe_pos - 1)
right_parts == SubSeq(parts, pipe_pos + 1, Len(parts))
left_cmd    == left_parts[1]
right_cmd   == right_parts[1]
left_args   == Tail(left_parts)
right_args  == Tail(right_parts)

both_sides == left_parts # <<>> /\ right_parts # <<>>

\* Command::spawn succeeded: the new process.  An "until_eof" program reads
\* its stdin to end-of-stream before it ends; an "any_time" program may end
\* whenever it likes.  todo: the bytes it has yet to write to its stdout.
spawned(argv, kind, todo) ==
    [st |-> "running", status |-> 0, killed |-> FALSE, waited |-> FALSE,
     argv |-> argv, kind |-> kind, todo |-> todo]

\* Child::kill: SIGKILL ends a running process at once
kill(child) ==
    IF child.st = "running"
    THEN [child EXCEPT !.st = "zombie", !.status = BySignal, !.killed = TRUE]
    ELSE [child EXCEPT !.killed = TRUE]

\* Child::wait returned Ok: the process is reaped
reap(child) == [child EXCEPT !.st = "reaped", !.waited = TRUE]

\* the pipe an external stage is spawned with
NewPipe == [buf |-> <<>>, w_open |-> TRUE, r_open |-> TRUE, eof |-> FALSE]

\* left_parts.is_empty() || right_parts.is_empty(): return
PipeEmptySide ==
    /\ in_pipeline
    /\ ~both_sides
    /\ pc' = "done"
    /\ UNCHANGED <<exit_code, input, parts, out, err, files, cwd, log>>
    /\ pipeline_unchanged
    /\ env_unchanged
    /\ UNCHANGED <<script, ret>>

\* PipeBothBuiltin, had it written the left builtin's output as well
PipeBothBuiltin_PrintsLeft ==
    /\ in_pipeline
    /\ both_sides
    /\ is_builtin(left_cmd) /\ is_builtin(right_cmd)
    /\ out' = out \o execute_builtin(left_cmd, left_args)
                  \o execute_builtin(right_cmd, right_args)
    /\ log' = log \o <<Ev("builtin", "left", left_parts),
                       Ev("builtin", "right", right_parts)>>
    /\ pc' = "done"
    /\ UNCHANGED <<exit_code, input, parts, err, files, cwd>>
    /\ pipeline_unchanged
    /\ env_unchanged
    /\ UNCHANGED <<script, ret>>

\* Case 1, builtin | builtin: run both with no stdin, print the right
\* one's output
PipeBothBuiltin ==
    /\ in_pipeline
    /\ both_sides
    /\ is_builtin(left_cmd) /\ is_builtin(right_cmd)
    /\ out' = out \o execute_builtin(right_cmd, right_args)
    /\ log' = log \o <<Ev("builtin", "left", left_parts),
                       Ev("builtin", "right", right_parts)>>
    /\ pc' = "done"
    /\ UNCHANGED <<exit_code, input, parts, err, files, cwd>>
    /\ pipeline_unchanged
    /\ env_unchanged
    /\ UNCHANGED <<script, ret>>

\* Case 2, builtin | external: run the builtin, resolve and spawn the
\* right command with its stdin piped
PipeBuiltinExternal ==
    /\ in_pipeline
    /\ both_sides
    /\ is_builtin(left_cmd) /\ ~is_builtin(right_cmd)
    /\ \E spawn_ok \in BOOLEAN, kind \in {"until_eof", "any_time"} :
        IF find_in_path(right_cmd) = None THEN
            /\ err' = err \o right_cmd \o CommandNotFound
            /\ log' = log \o <<Ev("builtin", "left", left_parts),
                               Ev("lookup_failed", "right", <<right_cmd>>)>>
            /\ pc' = "done"
            /\ UNCHANGED <<right_child, pipe, left_output>>
        ELSE IF ~spawn_ok THEN
            /\ err' = err \o FailedToExecute \o right_cmd \o <<"\n">>
            /\ log' = log \o <<Ev("builtin", "left", left_parts),
                               Ev("spawn_failed", "right", right_parts)>>
            /\ pc' = "done"
            /\ UNCHANGED <<right_child, pipe, left_output>>
        ELSE
            /\ left_output' = execute_builtin(left_cmd, left_args)
            /\ right_child' = spawned(right_parts, kind, 0)
            /\ pipe' = NewPipe
            /\ log' = log \o <<Ev("builtin", "left", left_parts),
                               Ev("spawn", "right", right_parts)>>
            /\ pc' = "c2_write"
            /\ UNCHANGED err
    /\ UNCHANGED <<exit_code, input, parts, out, files, cwd, left_child, rx>>
    /\ env_unchanged
    /\ UNCHANGED <<script, ret>>

min(a, b) == IF a <= b THEN a ELSE b

\* WriteStdin, had it kept the write end of the pipe open after writing
WriteStdin_KeepsOpen ==
    /\ pc = "c2_write"
    /\ IF ~pipe.r_open \/ left_output = <<>> THEN
          /\ pc' = "c2_wait"
          /\ UNCHANGED <<pipe, left_output>>
       ELSE
          /\ Len(pipe.buf) < PipeCap
          /\ LET n == min(PipeCap - Len(pipe.buf), Len(left_output)) IN
              /\ pipe' = [pipe EXCEPT !.buf = @ \o SubSeq(left_output, 1, n)]
              /\ left_output' = SubSeq(left_output, n + 1, Len(left_output))
          /\ UNCHANGED pc
    /\ UNCHANGED <<exit_code, input, parts, out, err, files, cwd, left_child,
                   right_child, rx, log>>
    /\ env_unchanged
    /\ UNCHANGED <<script, ret>>

\* stdin.write_all(&left_output).ok(), one write(2) at a time: it fails
\* once the reader is gone, takes what fits, and blocks on a full pipe;
\* at the end of the block stdin is dropped, which closes the write end
WriteStdin ==
    /\ pc = "c2_write"
    /\ IF ~pipe.r_open \/ left_output = <<>> THEN
          /\ pipe' = [pipe EXCEPT !.w_open = FALSE]
          /\ pc' = "c2_wait"
          /\ UNCHANGED left_output
       ELSE
          /\ Len(pipe.buf) < PipeCap
          /\ LET n == min(PipeCap - Len(pipe.buf), Len(left_output)) IN
              /\ pipe' = [pipe EXCEPT !.buf = @ \o SubSeq(left_output, 1, n)]
              /\ left_output' = SubSeq(left_output, n + 1, Len(left_output))
          /\ UNCHANGED pc
    /\ UNCHANGED <<exit_code, input, parts, out, err, files, cwd, left_child,
                   right_child, rx, log>>
    /\ env_unchanged
    /\ UNCHANGED <<script, ret>>

\* right_child.wait_with_output(): blocks until the child has ended; its
\* stdout and stderr were inherited, so the output collected is empty
WaitOutput ==
    /\ pc = "c2_wait"
    /\ right_child.st = "zombie"
    /\ \E wait_ok \in BOOLEAN :
        IF wait_ok THEN
            /\ right_child' = reap(right_child)
            /\ log' = Append(log, Ev("wait", "right", right_parts))
            /\ UNCHANGED err
        ELSE
            /\ right_child' = [right_child EXCEPT !.waited = TRUE]
            /\ err' = err \o FailedToWaitFor \o right_cmd \o <<"\n">>
            /\ log' = Append(log, Ev("wait_failed", "right", right_parts))
    /\ pc' = "done"
    /\ UNCHANGED <<exit_code, input, parts, out, files, cwd, left_child, pipe,
                   left_output, rx>>
    /\ env_unchanged
    /\ UNCHANGED <<script, ret>>

\* Case 3, external | builtin: resolve and spawn the left command with its
\* stdout piped, then enter execute_builtin with the pipe's read end
PipeExternalBuiltin ==
    /\ in_pipeline
    /\ both_sides
    /\ ~is_builtin(left_cmd) /\ is_builtin(right_cmd)
    /\ \E spawn_ok \in BOOLEAN :
        IF find_in_path(left_cmd) = None THEN
            /\ err' = err \o left_cmd \o CommandNotFound
            /\ log' = Append(log, Ev("lookup_failed", "left", <<left_cmd>>))
            /\ pc' = "done"
            /\ UNCHANGED <<left_child, pipe>>
        ELSE IF ~spawn_ok THEN
            /\ err' = err \o FailedToExecute \o left_cmd \o <<"\n">>
            /\ log' = Append(log, Ev("spawn_failed", "left", left_parts))
            /\ pc' = "done"
            /\ UNCHANGED <<left_child, pipe>>
        ELSE
            /\ left_child' = spawned(left_parts, "any_time", MaxProd)
            /\ pipe' = NewPipe
            /\ log' = log \o <<Ev("spawn", "left", left_parts),
                               Ev("builtin", "right", right_parts)>>
            /\ pc' = "c3_drain"
            /\ UNCHANGED err
    /\ UNCHANGED <<exit_code, input, parts, out, files, cwd, right_child,
                   left_output, rx>>
    /\ env_unchanged
    /\ UNCHANGED <<script, ret>>

\* execute_builtin, stdin_reader.read_to_end: one read(2) that returns the
\* bytes in the pipe; it blocks while the pipe is empty and still open
drain_read ==
    /\ pipe.buf # <<>>
    /\ rx' = rx \o pipe.buf
    /\ pipe' = [pipe EXCEPT !.buf = <<>>]

\* read_to_end reaches end-of-stream: the reader is dropped, execute_builtin
\* returns its output and execute_pipeline writes it to the terminal
drain_eof ==
    /\ pipe.buf = <<>>
    /\ ~pipe.w_open
    /\ pipe' = [pipe EXCEPT !.r_open = FALSE, !.eof = TRUE]
    /\ UNCHANGED rx

\* DrainStdin, had execute_builtin returned without reading its stdin
DrainStdin_Skips ==
    /\ pc = "c3_drain"
    /\ pipe' = [pipe EXCEPT !.r_open = FALSE]
    /\ out' = out \o execute_builtin(right_cmd, right_args)
    /\ log' = Append(log, Ev("drained", "right", right_parts))
    /\ pc' = "c3_kill"
    /\ UNCHANGED <<exit_code, input, parts, err, files, cwd, left_child,
                   right_child, left_output, rx>>
    /\ env_unchanged
    /\ UNCHANGED <<script, ret>>

DrainStdin ==
    /\ pc = "c3_drain"
    /\ IF pipe.buf # <<>>
       THEN drain_read /\ UNCHANGED <<pc, out, log>>
       ELSE /\ drain_eof
            /\ out' = out \o execute_builtin(right_cmd, right_args)
            /\ log' = Append(log, Ev("drained", "right", right_parts))
            /\ pc' = "c3_kill"
    /\ UNCHANGED <<exit_code, input, parts, err, files, cwd, left_child,
                   right_child, left_output>>
    /\ env_unchanged
    /\ UNCHANGED <<script, ret>>

\* left_child.kill().ok()
Case3KillLeft ==
    /\ pc = "c3_kill"
    /\ left_child' = kill(left_child)
    /\ pipe' = [pipe EXCEPT !.w_open = FALSE]
    /\ log' = Append(log, Ev("kill", "left", left_parts))
    /\ pc' = "c3_wait"
    /\ UNCHANGED <<exit_code, input, parts, out, err, files, cwd, right_child,
                   left_output, rx>>
    /\ env_unchanged
    /\ UNCHANGED <<script, ret>>

\* left_child.wait().ok(); return
Case3WaitLeft ==
    /\ pc = "c3_wait"
    /\ left_child.st = "zombie"
    /\ left_child' = reap(left_child)
    /\ log' = Append(log, Ev("wait", "left", left_parts))
    /\ pc' = "done"
    /\ UNCHANGED <<exit_code, input, parts, out, err, files, cwd, right_child,
                   pipe, left_output, rx>>
    /\ env_unchanged
    /\ UNCHANGED <<script, ret>>

\* Case 4, external | external: resolve both commands, spawn the left one
\* with its stdout piped
PipeBothExternal ==
    /\ in_pipeline
    /\ both_sides
    /\ ~is_builtin(left_cmd) /\ ~is_builtin(right_cmd)
    /\ \E spawn_ok \in BOOLEAN :
        IF find_in_path(left_cmd) = None THEN
            /\ err' = err \o left_cmd \o CommandNotFound
            /\ log' = Append(log, Ev("lookup_failed", "left", <<left_cmd>>))
            /\ pc' = "done"
            /\ UNCHANGED left_child
        ELSE IF find_in_path(right_cmd) = None THEN
            /\ err' = err \o right_cmd \o CommandNotFound
            /\ log' = Append(log, Ev("lookup_failed", "right", <<right_cmd>>))
            /\ pc' = "done"
            /\ UNCHANGED left_child
        ELSE IF ~spawn_ok THEN
            /\ err' = err \o FailedToExecute \o left_cmd \o <<"\n">>
            /\ log' = Append(log, Ev("spawn_failed", "left", left_parts))
            /\ pc' = "done"
            /\ UNCHANGED left_child
        ELSE
            /\ left_child' = spawned(left_parts, "any_time", 0)
            /\ log' = Append(log, Ev("spawn", "left", left_parts))
            /\ pc' = "c4_spawn_right"
            /\ UNCHANGED err
    /\ UNCHANGED <<exit_code, input, parts, out, files, cwd, right_child, pipe,
                   left_output, rx>>
    /\ env_unchanged
    /\ UNCHANGED <<script, ret>>

\* spawn the right command with the left one's stdout as its stdin; when
\* that fails: report, left_child.kill().ok(), return
Case4SpawnRight ==
    /\ pc = "c4_spawn_right"
    /\ \E spawn_ok \in BOOLEAN :
        IF spawn_ok THEN
            /\ right_child' = spawned(right_parts, "any_time", 0)
            /\ log' = Append(log, Ev("spawn", "right", right_parts))
            /\ pc' = "c4_wait_right"
            /\ UNCHANGED <<err, left_child>>
        ELSE
            /\ err' = err \o FailedToExecute \o right_cmd \o <<"\n">>
            /\ left_child' = kill(left_child)
            /\ log' = log \o <<Ev("spawn_failed", "right", right_parts),
                               Ev("kill", "left", left_parts)>>
            /\ pc' = "done"
            /\ UNCHANGED right_child
    /\ UNCHANGED <<exit_code, input, parts, out, files, cwd, pipe, left_output, rx>>
    /\ env_unchanged
    /\ UNCHANGED <<script, ret>>

\* right_child.wait(): blocks until the right child has ended.  Err:
\* report, left_child.kill().ok(), and fall out of the function.
Case4WaitRight ==
    /\ pc = "c4_wait_right"
    /\ right_child.st = "zombie"
    /\ \E wait_ok \in BOOLEAN :
        IF wait_ok THEN
            /\ right_child' = reap(right_child)
            /\ log' = Append(log, Ev("wait", "right", right_parts))
            /\ pc' = "c4_kill_left"
            /\ UNCHANGED <<err, left_child>>
        ELSE
            /\ right_child' = [right_child EXCEPT !.waited = TRUE]
            /\ err' = err \o FailedToWaitFor \o right_cmd \o <<"\n">>
            /\ left_child' = kill(left_child)
            /\ log' = log \o <<Ev("wait_failed", "right", right_parts),
                               Ev("kill", "left", left_parts)>>
            /\ pc' = "done"
    /\ UNCHANGED <<exit_code, input, parts, out, files, cwd, pipe, left_output, rx>>
    /\ env_unchanged
    /\ UNCHANGED <<script, ret>>

\* Ok(status): left_child.kill().ok()
Case4KillLeft ==
    /\ pc = "c4_kill_left"
    /\ left_child' = kill(left_child)
    /\ log' = Append(log, Ev("kill", "left", left_parts))
    /\ pc' = "c4_wait_left"
    /\ UNCHANGED <<exit_code, input, parts, out, err, files, cwd, right_child,
                   pipe, left_output, rx>>
    /\ env_unchanged
    /\ UNCHANGED <<script, ret>>

\* status.success(): the exit code is 0
success(status) == status = 0
\* status.code(): None for a death by signal
code(status) == IF status = BySignal THEN None ELSE Some(status)

\* left_child.wait().ok(); then, when the right child's status is not
\* success and carries an exit code, std::process::exit(code)
Case4WaitLeft ==
    /\ pc = "c4_wait_left"
    /\ left_child.st = "zombie"
    /\ left_child' = reap(left_child)
    /\ log' = Append(log, Ev("wait", "left", left_parts))
    /\ IF ~success(right_child.status) /\ code(right_child.status) # None
       THEN /\ exit_code' = code(right_child.status)
            /\ pc' = "exited"
       ELSE /\ pc' = "done"
            /\ UNCHANGED exit_code
    /\ UNCHANGED <<input, parts, out, err, files, cwd, right_child, pipe,
                   left_output, rx>>
    /\ env_unchanged
    /\ UNCHANGED <<script, ret>>

Pipeline ==
    \/ PipeEmptySide
    \/ PipeBothBuiltin
    \/ PipeBuiltinExternal
    \/ WriteStdin
    \/ WaitOutput
    \/ PipeExternalBuiltin
    \/ DrainStdin
    \/ Case3KillLeft
    \/ Case3WaitLeft
    \/ PipeBothExternal
    \/ Case4SpawnRight
    \/ Case4WaitRight
    \/ Case4KillLeft
    \/ Case4WaitLeft

(***************************************************************************)
(* The children: what an external program may do on its own.               *)
(***************************************************************************)
shell_unchanged ==
    UNCHANGED <<pc, exit_code, input, parts, out, err, files, cwd, left_output, log>>

\* the left program writes a byte to its stdout, the pipe, when it fits
LeftWrite ==
    /\ left_child.st = "running"
    /\ pipe.w_open /\ pipe.r_open
    /\ left_child.todo > 0
    /\ Len(pipe.buf) < PipeCap
    /\ pipe' = [pipe EXCEPT !.buf = Append(@, "x")]
    /\ left_child' = [left_child EXCEPT !.todo = @ - 1]
    /\ UNCHANGED <<right_child, rx>>
    /\ shell_unchanged
    /\ env_unchanged
    /\ UNCHANGED <<script, ret>>

\* the left program closes its stdout and goes on running
LeftClose ==
    /\ left_child.st = "running"
    /\ pipe.w_open
    /\ pipe' = [pipe EXCEPT !.w_open = FALSE]
    /\ UNCHANGED <<left_child, right_child, rx>>
    /\ shell_unchanged
    /\ env_unchanged
    /\ UNCHANGED <<script, ret>>

\* the left program ends of its own accord, which closes its stdout
LeftExit ==
    /\ left_child.st = "running"
    /\ \E status \in ExitCodes \cup {BySignal} :
        left_child' = [left_child EXCEPT !.st = "zombie", !.status = status]
    /\ pipe' = [pipe EXCEPT !.w_open = FALSE]
    /\ UNCHANGED <<right_child, rx>>
    /\ shell_unchanged
    /\ env_unchanged
    /\ UNCHANGED <<script, ret>>

\* the right program reads what is in its stdin pipe
RightRead ==
    /\ right_child.st = "running"
    /\ pipe.r_open /\ ~pipe.eof
    /\ pipe.buf # <<>>
    /\ rx' = rx \o pipe.buf
    /\ pipe' = [pipe EXCEPT !.buf = <<>>]
    /\ UNCHANGED <<left_child, right_child>>
    /\ shell_unchanged
    /\ env_unchanged
    /\ UNCHANGED <<script, ret>>

\* the right program's read returns 0: the pipe is empty and its write end
\* is closed
RightEof ==
    /\ right_child.st = "running"
    /\ pipe.r_open /\ ~pipe.eof
    /\ pipe.buf = <<>> /\ ~pipe.w_open
    /\ pipe' = [pipe EXCEPT !.eof = TRUE]
    /\ UNCHANGED <<left_child, right_child, rx>>
    /\ shell_unchanged
    /\ env_unchanged
    /\ UNCHANGED <<script, ret>>

\* the right program ends of its own accord, which closes its stdin; an
\* until_eof program does so only after end-of-stream
RightExit ==
    /\ right_child.st = "running"
    /\ right_child.kind = "until_eof" => pipe.eof
    /\ \E status \in ExitCodes \cup {BySignal} :
        right_child' = [right_child EXCEPT !.st = "zombie", !.status = status]
    /\ pipe' = [pipe EXCEPT !.r_open = FALSE]
    /\ UNCHANGED <<left_child, rx>>
    /\ shell_unchanged
    /\ env_unchanged
    /\ UNCHANGED <<script, ret>>

Children ==
    \/ LeftWrite
    \/ LeftClose
    \/ LeftExit
    \/ RightRead
    \/ RightEof
    \/ RightExit

Main ==
    \/ ReadLine
    \/ Continue
    \/ EndOfInput
    \/ EmptyLine
    \/ MainExit
    \/ MainBuiltin
    \/ MainNoCommand
    \/ MainBuiltinName
    \/ MainNotFound
    \/ MainRun

Next == Main \/ Pipeline \/ Children

Spec == Init /\ [][Next]_vars

\* the shell runs whenever it is not blocked, the OS schedules each child,
\* and an external program that is free to end does end
FairSpec ==
    /\ Spec
    /\ WF_vars(WriteStdin)
    /\ WF_vars(WaitOutput)
    /\ WF_vars(RightRead)
    /\ WF_vars(RightEof)
    /\ WF_vars(RightExit)

(***************************************************************************)
(* A session of echo commands that redirect to one file of the working     *)
(* directory.                                                              *)
(***************************************************************************)
\* the most lines of a session
MaxScript == 3

RECURSIVE seqs_upto(_, _)
\* the sequences over S of length 1..n
seqs_upto(S, n) ==
    IF n = 0 THEN {}
    ELSE seqs_upto(S, n - 1) \cup [1..n -> S]

\* echo, no argument or one, an operator as its own token, and the file f
EchoLines ==
    {join(<<Echo>> \o xs \o <<op, FileF>>, <<" ">>) :
        xs \in {<<>>, <<WordA>>, <<WordB>>},
        op \in {OpTrunc, OpAppend, Op2Trunc, Op2Append}}

EchoInit ==
    /\ Boot
    /\ pc = "read"
    /\ input = <<>>
    /\ parts = <<>>
    /\ fs = InstalledFiles
    /\ env_PATH = StartPATH
    /\ script \in seqs_upto(EchoLines, MaxScript)

EchoNext == ReadLine \/ MainBuiltin \/ Continue \/ EndOfInput

EchoSpec == EchoInit /\ [][EchoNext]_vars

(***************************************************************************)
(* parse_redirection called on its own, on any short token sequence.       *)
(***************************************************************************)
\* the most tokens handed to parse_redirection
MaxTokens == 3

Operators == {OpAppend, Op1Append, Op2Append, OpTrunc, Op1Trunc, Op2Trunc}

\* a plain word, the name f, each operator, and each operator fused with f
RedirTokens ==
    {WordA, FileF} \cup Operators \cup {op \o FileF : op \in Operators}

RedirStart ==
    /\ Boot
    /\ pc = "redir"
    /\ input = <<>>
    /\ parts \in {<<>>} \cup seqs_upto(RedirTokens, MaxTokens)
    /\ fs = InstalledFiles
    /\ env_PATH = StartPATH
    /\ script = <<>>

\* let (cmd_parts, ...) = parse_redirection(&parts)
Extract ==
    /\ pc = "redir"
    /\ ret' = Some(parse_redirection(parts))
    /\ pc' = "extracted"
    /\ UNCHANGED <<exit_code, input, parts, out, err, files, cwd, log, script>>
    /\ pipeline_unchanged
    /\ env_unchanged

RedirNext == Extract

RedirSpec == RedirStart /\ [][RedirNext]_vars

(***************************************************************************)
(* parse_arguments called on its own, on any short line.                   *)
(***************************************************************************)
\* the most characters of a line handed to parse_arguments
MaxChars == 4

\* a letter, the two blanks, the backslash, both quotes, and the two other
\* characters a backslash escapes inside double quotes
TokChars == {"a", " ", "\t", "\\", "\"", "'", "$", Backtick}

TokStart ==
    /\ Boot
    /\ pc = "tokenize"
    /\ input \in {<<>>} \cup seqs_upto(TokChars, MaxChars)
    /\ parts = <<>>
    /\ fs = InstalledFiles
    /\ env_PATH = StartPATH
    /\ script = <<>>

\* let parts = parse_arguments(input)
Tokenize ==
    /\ pc = "tokenize"
    /\ parts' = parse_arguments(input)
    /\ pc' = "tokenized"
    /\ UNCHANGED <<exit_code, input, out, err, files, cwd, log, script, ret>>
    /\ pipeline_unchanged
    /\ env_unchanged

TokNext == Tokenize

TokSpec == TokStart /\ [][TokNext]_vars

(***************************************************************************)
(* find_in_path called on its own, for any PATH over three directories and *)
(* any modes of the candidate files.                                       *)
(***************************************************************************)
\* the most directories PATH lists
MaxDirs == 2

DirA == <<"/", "a">>
DirB == <<"/", "b">>
DirC == <<"/", "c">>

\* PATH is unset, empty, or lists up to MaxDirs directories
PathValues ==
    {None, Some(<<>>)}
        \cup {Some(join(ds, <<":">>)) : ds \in seqs_upto({DirA, DirB, DirC}, MaxDirs)}

\* rw-r--r--, rwxr-xr-x, ---x--x--x less the owner's bit, and ------x---
FileModes == {6 * 64 + 4 * 8 + 4, 7 * 64 + 5 * 8 + 5, 8 + 1, 8}

\* cat may be installed in /a and in /b, never in /c, with any of the modes
Installations ==
    UNION {[S -> FileModes] : S \in SUBSET {path_join(DirA, Cat), path_join(DirB, Cat)}}

FindStart ==
    /\ Boot
    /\ pc = "resolve"
    /\ input \in {Cat, Seven}
    /\ parts = <<>>
    /\ fs \in Installations
    /\ env_PATH \in PathValues
    /\ script = <<>>

\* find_in_path(cmd)
Resolve ==
    /\ pc = "resolve"
    /\ ret' = Some(find_in_path(input))
    /\ pc' = "resolved"
    /\ UNCHANGED <<exit_code, input, parts, out, err, files, cwd, log, script>>
    /\ pipeline_unchanged
    /\ env_unchanged

FindNext == Resolve

FindSpec == FindStart /\ [][FindNext]_vars

(***************************************************************************)
(* The contract of the pipeline executor, claim by claim.                  *)
(***************************************************************************)
returned == pc = "done"
children == {left_child, right_child}
events(kinds) == SelectSeq(log, LAMBDA ev : ev.e \in kinds)
happened(kinds) == events(kinds) # <<>>
n_pipes == Cardinality({i \in 1..Len(parts) : parts[i] = PipeTok})

\* C1: whenever execute_pipeline has returned to the read loop, every child
\* it spawned has been waited on.
C1_ReapedOnReturn ==
    returned => \A c \in children : c.st # "none" => c.waited

\* C2: the shell process ends only at end-of-input (no line in hand) or on
\* a line whose command name is exit.
C2_OnlyExitEndsShell ==
    pc = "exited" => parts = <<>> \/ parts[1] = Exit

\* C3: an invocation of the exit builtin, by main or as a stage of a
\* pipeline, ends the process with the status its first argument parses
\* to, or 0.
C3_ExitTerminates ==
    \A i \in 1..Len(log) :
        log[i].e \in {"exit", "builtin"} /\ log[i].argv[1] = Exit =>
            /\ pc = "exited"
            /\ exit_code = Some(IF Len(log[i].argv) > 1
                                THEN parse_i32_or_0(log[i].argv[2]) ELSE 0)

\* C4: after a failed PATH lookup of a command name, nothing was spawned for
\* that command, the shell has printed exactly "<name>: command not found"
\* and it is back in the read loop.
C4_NotFoundLine ==
    \A i \in 1..Len(log) :
        log[i].e = "lookup_failed" =>
            /\ returned
            /\ out \o err = log[i].argv[1] \o CommandNotFound
            /\ \A j \in 1..Len(log) :
                ~(log[j].e = "spawn" /\ log[j].who = log[i].who)

\* the non-empty maximal |-free segments of a token sequence, in order
RECURSIVE segments(_, _, _)
segments(ts, cur, acc) ==
    IF ts = <<>> THEN (IF cur = <<>> THEN acc ELSE Append(acc, cur))
    ELSE IF Head(ts) = PipeTok
         THEN segments(Tail(ts), <<>>, IF cur = <<>> THEN acc ELSE Append(acc, cur))
         ELSE segments(Tail(ts), Append(cur, Head(ts)), acc)

stages_run == events({"builtin", "spawn"})

\* C5: no | token reaches a stage, and a line with pipes that ran without a
\* failure ran one stage per non-empty |-free segment, in order.
C5_StagesAreSegments ==
    /\ \A i \in 1..Len(stages_run) :
        \A k \in 1..Len(stages_run[i].argv) : stages_run[i].argv[k] # PipeTok
    /\ (returned /\ has_pipe
            /\ ~happened({"lookup_failed", "spawn_failed", "wait_failed"})) =>
         LET segs == segments(parts, <<>>, <<>>) IN
         /\ Len(stages_run) = Len(segs)
         /\ \A k \in 1..Len(segs) : stages_run[k].argv[1] = segs[k][1]

no_failure == ~happened({"lookup_failed", "spawn_failed", "wait_failed"})
no_exit_stage == \A i \in 1..Len(parts) : parts[i] # Exit

\* C6: in a two-stage pipeline that ran without a failure, each stage has
\* received its own tokens less the redirection operators and filenames,
\* and a last builtin stage with a stdout redirection has written to the
\* file, not to the terminal.
C6_StageRedirection ==
    (returned /\ n_pipes = 1 /\ both_sides /\ no_failure /\ no_exit_stage) =>
        /\ \A i \in 1..Len(stages_run) :
            LET seg == IF stages_run[i].who = "left" THEN left_parts ELSE right_parts
            IN  stages_run[i].argv = parse_redirection(seg).cmd_parts
        /\ (is_builtin(right_cmd)
                /\ parse_redirection(right_parts).stdout_file # None) =>
             /\ out = <<>>
             /\ parse_redirection(right_parts).stdout_file[1] \in DOMAIN files

\* execute_pipeline returns (): its caller learns a status only when the
\* process ends with it, and a plain return reads as success
reported_status == IF pc = "exited" THEN exit_code[1] ELSE 0

\* C7: once a two-stage pipeline has run, the status reported is the exit
\* code of the last stage's process when that stage is external, and
\* success when it is a builtin other than exit.
C7_StatusOfLastStage ==
    (pc \in {"done", "exited"} /\ n_pipes = 1 /\ both_sides /\ no_exit_stage) =>
        /\ (right_child.st = "reaped" /\ right_child.status \in ExitCodes) =>
              reported_status = right_child.status
        /\ (is_builtin(right_cmd) /\ no_failure) => reported_status = 0

\* the states of a builtin | external pipeline whose right side was spawned
in_case2 == right_child.st # "none" /\ is_builtin(left_cmd)
\* the states of an external | builtin pipeline whose left side was spawned
in_case3 == left_child.st # "none" /\ is_builtin(right_cmd)

\* C8 (safety): of the left builtin's output every byte is in order in
\* what the right process has read, in the pipe, or still to be written;
\* and a process that has read its stdin to end-of-stream has read exactly
\* that output.
RelayIsExact ==
    in_case2 =>
        /\ rx \o pipe.buf \o left_output = execute_builtin(left_cmd, left_args)
        /\ pipe.eof => rx = execute_builtin(left_cmd, left_args)

\* C8: the relay is exact, and an executor that has started to write the
\* buffer to the right process's stdin always comes to return.
C8_RelayCompletes ==
    /\ []RelayIsExact
    /\ (pc = "c2_write") ~> returned

\* a buffer larger than the pipe was read to end-of-stream, and the
\* executor has returned
C8_Witness ==
    /\ returned
    /\ in_case2
    /\ right_child.st = "reaped"
    /\ pipe.eof
    /\ Len(rx) > PipeCap
    /\ rx = execute_builtin(left_cmd, left_args)

\* the left process is blocked in a write to the full pipe
producer_blocked ==
    /\ left_child.st = "running"
    /\ pipe.w_open
    /\ left_child.todo > 0
    /\ Len(pipe.buf) = PipeCap

\* C9: in an external | builtin pipeline the left process is signalled or
\* waited on, and the executor returns, only after the builtin has read
\* the pipe to end-of-stream; and whenever the left process is blocked on
\* the full pipe the builtin is there reading it.
C9_DrainBeforeKill ==
    in_case3 =>
        /\ (left_child.killed \/ left_child.waited \/ returned) => pipe.eof
        /\ producer_blocked => pc = "c3_drain"

\* the left process wrote all it had, more than the pipe holds, the exit
\* builtin read it all, and the left process was then killed and reaped
C9_Witness ==
    /\ returned
    /\ in_case3
    /\ right_cmd = Exit
    /\ left_child.killed /\ left_child.st = "reaped"
    /\ Len(rx) = MaxProd /\ MaxProd > PipeCap

\* C10: after a builtin | builtin pipeline the terminal holds exactly the
\* right builtin's output, no pipe was made, and nothing else was written;
\* echo 7 | echo cat prints cat and a newline.
C10_RightOutputOnly ==
    (returned /\ has_pipe /\ both_sides
        /\ is_builtin(left_cmd) /\ is_builtin(right_cmd)) =>
        /\ out = execute_builtin(right_cmd, right_args)
        /\ err = <<>>
        /\ files = NoFiles
        /\ pipe = NoPipe /\ rx = <<>>
        /\ parts = <<Echo, Seven, PipeTok, Echo, Cat>> => out = <<"c", "a", "t", "\n">>

C10_Witness ==
    /\ returned
    /\ parts = <<Echo, Seven, PipeTok, Echo, Cat>>
    /\ out = <<"c", "a", "t", "\n">>
    /\ Len(log) = 2

(***************************************************************************)
(* Redirection of echo to a file, claim by claim.                          *)
(***************************************************************************)
\* main has just run the line `echo X op f` and every open succeeded
ran_echo(op) ==
    /\ pc = "main" /\ pc' = "done"
    /\ Len(parts) >= 3
    /\ parts[1] = Echo
    /\ parts[Len(parts) - 1] = op /\ parts[Len(parts)] = FileF
    /\ \A i \in 1..Len(log') : log'[i].e # "open_failed"

echo_text == join(SubSeq(parts, 2, Len(parts) - 2), <<" ">>) \o <<"\n">>
prior_f == IF FileF \in DOMAIN files THEN files[FileF] ELSE <<>>

\* C11: echo X > f leaves f holding X and a newline, echo X >> f leaves f
\* holding what it held (nothing when absent) followed by X and a newline,
\* and neither writes to the terminal's stdout.
C11_EchoToFile ==
    [][/\ ran_echo(OpTrunc) =>
            /\ FileF \in DOMAIN files' /\ files'[FileF] = echo_text
            /\ out' = out
       /\ ran_echo(OpAppend) =>
            /\ FileF \in DOMAIN files' /\ files'[FileF] = prior_f \o echo_text
            /\ out' = out]_vars

\* echo a > f, echo b >> f, echo a >> f were run in this order
C11_Witness ==
    /\ pc = "done"
    /\ parts = <<Echo, WordA, OpAppend, FileF>>
    /\ FileF \in DOMAIN files
    /\ files[FileF] = <<"a", "\n", "b", "\n", "a", "\n">>
    /\ out = <<>>

\* C12: echo with a stderr redirection to f leaves f existing: empty after
\* 2>, and after 2>> empty if it was absent and unchanged otherwise.
C12_StderrFileKept ==
    [][/\ ran_echo(Op2Trunc) =>
            FileF \in DOMAIN files' /\ files'[FileF] = <<>>
       /\ ran_echo(Op2Append) =>
            FileF \in DOMAIN files' /\ files'[FileF] = prior_f]_vars

(***************************************************************************)
(* The redirection extractor, claim by claim.                              *)
(***************************************************************************)
\* the operator a token starts with: the longest one that is its prefix
op_of(tok) ==
    LET S == {o \in Operators : starts_with(tok, o)} IN
    IF S = {} THEN None
    ELSE Some(CHOOSE o \in S : \A q \in S : Len(q) <= Len(o))

to_stderr(op) == Head(op) = "2"
appends(op) == Len(op) >= 2 /\ op[Len(op) - 1] = ">" /\ op[Len(op)] = ">"

\* what the table of operators asks of a token sequence, read left to
\* right: an operator takes the rest of its token as the filename, or the
\* next token when nothing is fused; dangling tells that the last token is
\* an operator left with no filename
RECURSIVE by_table(_, _)
by_table(ps, r) ==
    IF ps = <<>> THEN r
    ELSE
      LET tok == Head(ps)
          o == op_of(tok)
      IN
      IF o = None THEN
          by_table(Tail(ps), [r EXCEPT !.cmd_parts = Append(@, tok)])
      ELSE
          LET op == o[1]
              fused == Len(tok) > Len(op)
          IN
          IF ~fused /\ Len(ps) = 1 THEN [r EXCEPT !.dangling = TRUE]
          ELSE
            LET file == IF fused THEN SubSeq(tok, Len(op) + 1, Len(tok)) ELSE ps[2]
                rest == IF fused THEN Tail(ps) ELSE Tail(Tail(ps))
            IN
            IF to_stderr(op)
            THEN by_table(rest, [r EXCEPT !.stderr_file = Some(file),
                                          !.stderr_append = appends(op)])
            ELSE by_table(rest, [r EXCEPT !.stdout_file = Some(file),
                                          !.stdout_append = appends(op)])

expected_redirection(ps) ==
    by_table(ps, [cmd_parts |-> <<>>, stdout_file |-> None, stdout_append |-> FALSE,
                  stderr_file |-> None, stderr_append |-> FALSE, dangling |-> FALSE])

without_dangling(e) ==
    [cmd_parts |-> e.cmd_parts, stdout_file |-> e.stdout_file,
     stdout_append |-> e.stdout_append, stderr_file |-> e.stderr_file,
     stderr_append |-> e.stderr_append]

extracted == pc = "extracted"

\* C13: an operator that is the last token and has no filename is dropped:
\* the result is that of the sequence without it.
C13_TrailingOperatorDropped ==
    (extracted /\ expected_redirection(parts).dangling) =>
        /\ ret[1] = without_dangling(expected_redirection(parts))
        /\ ret[1] = parse_redirection(SubSeq(parts, 1, Len(parts) - 1))

\* C14: on a sequence where no operator is left without a filename, each
\* operator, as its own token or fused, sets the stream and mode of the
\* table to the filename with the operator stripped, and the command tokens
\* are the other tokens in their order.
C14_OperatorTable ==
    (extracted /\ ~expected_redirection(parts).dangling) =>
        ret[1] = without_dangling(expected_redirection(parts))

C14_Witness ==
    /\ extracted
    /\ parts = <<Op2Append \o FileF, WordA, OpAppend \o FileF>>
    /\ ret[1] = [cmd_parts |-> <<WordA>>, stdout_file |-> Some(FileF),
                 stdout_append |-> TRUE, stderr_file |-> Some(FileF),
                 stderr_append |-> TRUE]

(***************************************************************************)
(* The tokenizer, claim by claim.                                          *)
(***************************************************************************)
tokenized == pc = "tokenized"

\* what a double-quoted body x stands for, or None when x holds an
\* unescaped double quote or ends in a lone backslash
RECURSIVE in_double_quotes(_)
in_double_quotes(x) ==
    IF x = <<>> THEN Some(<<>>)
    ELSE IF Head(x) = "\"" THEN None
    ELSE IF Head(x) = "\\" THEN
        IF Len(x) = 1 THEN None
        ELSE IF x[2] \in {"\\", "\"", "$", Backtick} THEN
            LET rest == in_double_quotes(SubSeq(x, 3, Len(x))) IN
            IF rest = None THEN None ELSE Some(<<x[2]>> \o rest[1])
        ELSE
            LET rest == in_double_quotes(Tail(x)) IN
            IF rest = None THEN None ELSE Some(<<"\\">> \o rest[1])
    ELSE
        LET rest == in_double_quotes(Tail(x)) IN
        IF rest = None THEN None ELSE Some(<<Head(x)>> \o rest[1])

\* C15: a line that is one double-quoted body yields the body with each
\* backslash before a backslash, double quote, dollar or backtick removed
\* and every other backslash kept, as one token.
C15_DoubleQuoteEscapes ==
    (/\ tokenized
     /\ Len(input) >= 3
     /\ Head(input) = "\"" /\ input[Len(input)] = "\""
     /\ in_double_quotes(SubSeq(input, 2, Len(input) - 1)) # None) =>
        parts = <<in_double_quotes(SubSeq(input, 2, Len(input) - 1))[1]>>

\* the line "\"": the escaped double quote is the token and does not close
\* the quote
C15_Witness ==
    /\ tokenized
    /\ input = <<"\"", "\\", "\"", "\"">>
    /\ parts = << <<"\"">> >>

\* what a line without quotes or blanks of its own stands for: each
\* backslash gives way to the character after it; None when the line holds
\* an unescaped quote or blank or ends in a lone backslash
RECURSIVE outside_quotes(_)
outside_quotes(x) ==
    IF x = <<>> THEN Some(<<>>)
    ELSE IF Head(x) \in {"\"", "'", " ", "\t"} THEN None
    ELSE IF Head(x) = "\\" THEN
        IF Len(x) = 1 THEN None
        ELSE LET rest == outside_quotes(SubSeq(x, 3, Len(x))) IN
             IF rest = None THEN None ELSE Some(<<x[2]>> \o rest[1])
    ELSE
        LET rest == outside_quotes(Tail(x)) IN
        IF rest = None THEN None ELSE Some(<<Head(x)>> \o rest[1])

no_single_quote(x) == \A i \in 1..Len(x) : x[i] # "'"

\* C16: a line that is one single-quoted body yields the body unchanged as
\* one token; a line with no quote or blank of its own yields one token in
\* which each backslash is dropped and the character after it is kept.
C16_SingleQuotesAndBareEscapes ==
    /\ (/\ tokenized
        /\ Len(input) >= 3
        /\ Head(input) = "'" /\ input[Len(input)] = "'"
        /\ no_single_quote(SubSeq(input, 2, Len(input) - 1))) =>
            parts = <<SubSeq(input, 2, Len(input) - 1)>>
    /\ (/\ tokenized
        /\ input # <<>>
        /\ outside_quotes(input) # None) =>
            parts = <<outside_quotes(input)[1]>>

\* the line '\"' keeps its backslash and double quote
C16_Witness ==
    /\ tokenized
    /\ input = <<"'", "\\", "\"", "'">>
    /\ parts = << <<"\\", "\"">> >>

\* a quote is opened at the start of the line or after a first word, and
\* none closes it: the body holds no quote and no backslash
open_quote_body(x) == \A i \in 1..Len(x) : x[i] \notin {"\"", "'", "\\"}

\* C17: a line that ends inside a quote opened at its start yields one
\* token, the characters after the quote, none dropped.
C17_UnterminatedFlushed ==
    (/\ tokenized
     /\ input # <<>>
     /\ Head(input) \in {"\"", "'"}
     /\ open_quote_body(Tail(input))) =>
        parts = <<Tail(input)>>

(***************************************************************************)
(* echo, the PATH resolver and the end of a pipeline, claim by claim.      *)
(***************************************************************************)
no_redirection == \A i \in 1..Len(parts) : op_of(parts[i]) = None

\* C18: echo, as a plain command without redirection or as the right stage
\* after a builtin, writes its arguments joined by single spaces and a
\* newline to the terminal's stdout, and nothing to stderr.
C18_EchoOutput ==
    /\ (returned /\ ~has_pipe /\ parts # <<>> /\ parts[1] = Echo /\ no_redirection) =>
            /\ out = join(Tail(parts), <<" ">>) \o <<"\n">>
            /\ err = <<>>
    /\ (returned /\ has_pipe /\ both_sides
            /\ is_builtin(left_cmd) /\ right_cmd = Echo) =>
            /\ out = join(right_args, <<" ">>) \o <<"\n">>
            /\ err = <<>>

resolved == pc = "resolved"

\* a file with one of the owner, group or other execute bits
executable(mode) == \E b \in {1, 8, 64} : (mode \div b) % 2 = 1

\* the directory PATH lists at place i holds an executable file named name
qualifies(dirs, i, name) ==
    /\ path_join(dirs[i], name) \in DOMAIN fs
    /\ executable(fs[path_join(dirs[i], name)])

\* C19: find_in_path returns the name joined to the first directory of
\* PATH that holds an executable file of that name, and none when no
\* directory does or PATH is unset.
C19_FirstExecutable ==
    resolved =>
        IF env_PATH = None THEN ret[1] = None
        ELSE LET dirs == split(env_PATH[1], ":")
                 Q == {i \in 1..Len(dirs) : qualifies(dirs, i, input)}
             IN  IF Q = {} THEN ret[1] = None
                 ELSE \E i \in Q :
                        /\ \A j \in Q : i <= j
                        /\ ret[1] = Some(path_join(dirs[i], input))

\* PATH=/a:/b, /a/cat is rw-r--r--, /b/cat has the group and other execute
\* bits only: cat resolves to /b/cat
C19_Witness ==
    /\ resolved
    /\ input = Cat
    /\ env_PATH = Some(join(<<DirA, DirB>>, <<":">>))
    /\ DOMAIN fs = {path_join(DirA, Cat), path_join(DirB, Cat)}
    /\ fs[path_join(DirA, Cat)] = 6 * 64 + 4 * 8 + 4
    /\ fs[path_join(DirB, Cat)] = 8 + 1
    /\ ret = Some(Some(path_join(DirB, Cat)))

\* C20: in a pipeline where every lookup, spawn and wait succeeds, the
\* executor sends no signal to a child that is still running.
C20_NoKillOnSuccess ==
    [][~(/\ left_child.st = "running"
         /\ left_child'.killed
         /\ \A i \in 1..Len(log') :
              log'[i].e \notin {"lookup_failed", "spawn_failed", "wait_failed"})]_vars

(***************************************************************************)
(* Several operators in one sequence, and empty tokens.                    *)
(***************************************************************************)
\* the operators of a token sequence in their order, each with its stream,
\* its mode and the filename it takes; a filename token is not looked at
\* again, and an operator left without a filename is not listed
RECURSIVE occurrences(_)
occurrences(ps) ==
    IF ps = <<>> THEN <<>>
    ELSE
      LET tok == Head(ps)
          o == op_of(tok)
      IN
      IF o = None THEN occurrences(Tail(ps))
      ELSE IF Len(tok) > Len(o[1]) THEN
          <<[stderr |-> to_stderr(o[1]), append |-> appends(o[1]),
             file |-> SubSeq(tok, Len(o[1]) + 1, Len(tok))]>>
              \o occurrences(Tail(ps))
      ELSE IF Len(ps) = 1 THEN <<>>
      ELSE
          <<[stderr |-> to_stderr(o[1]), append |-> appends(o[1]), file |-> ps[2]]>>
              \o occurrences(Tail(Tail(ps)))

stdout_operators == SelectSeq(occurrences(parts), LAMBDA oc : ~oc.stderr)
stderr_operators == SelectSeq(occurrences(parts), LAMBDA oc : oc.stderr)

\* C21: on a sequence where no operator is left without a filename, the
\* target and mode returned for a stream are those of the last operator of
\* that stream, whatever the operators of the other stream are, and there
\* is no target when the stream has no operator.
C21_LastOperatorWins ==
    (extracted /\ ~expected_redirection(parts).dangling) =>
        /\ IF stdout_operators = <<>>
           THEN ret[1].stdout_file = None /\ ~ret[1].stdout_append
           ELSE LET last == stdout_operators[Len(stdout_operators)] IN
                /\ ret[1].stdout_file = Some(last.file)
                /\ ret[1].stdout_append = last.append
        /\ IF stderr_operators = <<>>
           THEN ret[1].stderr_file = None /\ ~ret[1].stderr_append
           ELSE LET last == stderr_operators[Len(stderr_operators)] IN
                /\ ret[1].stderr_file = Some(last.file)
                /\ ret[1].stderr_append = last.append

\* >f >> a: two stdout operators, the last one appends to a
C21_Witness ==
    /\ extracted
    /\ parts = <<OpTrunc \o FileF, OpAppend, WordA>>
    /\ Len(stdout_operators) = 2
    /\ ret[1].stdout_file = Some(WordA)
    /\ ret[1].stdout_append
    /\ ret[1].stderr_file = None /\ ~ret[1].stderr_append

blank_line == \A i \in 1..Len(input) : input[i] \in {" ", "\t"}

\* C22: every token parse_arguments returns holds at least one character;
\* a line of blanks, and a line that is an empty quoted string, yield no
\* token.
C22_NoEmptyToken ==
    tokenized =>
        /\ \A i \in 1..Len(parts) : Len(parts[i]) >= 1
        /\ blank_line => parts = <<>>
        /\ input \in {<<"'", "'">>, <<"\"", "\"">>} => parts = <<>>

\* the line a '' yields the one token a
C22_Witness ==
    /\ tokenized
    /\ input = <<"a", " ", "'", "'">>
    /\ parts = << <<"a">> >>

====
